---- MODULE Spec2Model ----
(***************************************************************************)
(* Model of calendar_builder_full.py: fetch_live_te, generate_static and   *)
(* write_excel, run in sequence by the __main__ block against the workbook *)
(* macro_calendar.xlsx.                                                    *)
(*                                                                         *)
(* A table (pandas DataFrame, or a worksheet) is a record                  *)
(*   [state, cols, rows]: cols a sequence of column names, rows a sequence *)
(* of cell sequences aligned with cols.  state is "ok" for a readable      *)
(* table, "absent" for a sheet that is not in the workbook and "corrupt"   *)
(* for a sheet whose read raises.  Dates are <<year, month, day>>.         *)
(***************************************************************************)
EXTENDS Integers, Sequences, FiniteSets, TLC

VARIABLES pc, store, today, payload, live, static, iters, outcome, runs, hist

vars == <<pc, store, today, payload, live, static, iters, outcome, runs, hist>>

(***************************************************************************)
(* Bounds of the model.                                                    *)
(***************************************************************************)
MaxRuns == 2

\* ------------------------------------------------------------- sequences
RECURSIVE IndexOfFrom(_, _, _)
IndexOfFrom(s, x, i) ==
    IF i > Len(s) THEN 0
    ELSE IF s[i] = x THEN i
    ELSE IndexOfFrom(s, x, i + 1)

\* first position of x in s, 0 when x does not occur
IndexOf(s, x) == IndexOfFrom(s, x, 1)

Count(s, x) == Cardinality({i \in 1..Len(s) : s[i] = x})

Range(s) == {s[i] : i \in 1..Len(s)}

Min2(a, b) == IF a <= b THEN a ELSE b

\* the sequence f as an explicit tuple
Tup(f) == f \o <<>>

\* ------------------------------------------------------------ datetime.date
IsLeap(y) == (y % 4 = 0 /\ y % 100 # 0) \/ y % 400 = 0

DaysInMonth(y, m) ==
    IF m = 2 THEN (IF IsLeap(y) THEN 29 ELSE 28)
    ELSE IF m \in {4, 6, 9, 11} THEN 30
    ELSE 31

RECURSIVE DaysBeforeMonth(_, _)
DaysBeforeMonth(y, m) ==
    IF m = 1 THEN 0 ELSE DaysBeforeMonth(y, m - 1) + DaysInMonth(y, m - 1)

\* date.toordinal(): 0001-01-01 is day 1
ToOrdinal(d) ==
    LET y == d[1] - 1
    IN  365 * y + (y \div 4) - (y \div 100) + (y \div 400)
        + DaysBeforeMonth(d[1], d[2]) + d[3]

\* date.weekday(): Monday is 0, Sunday is 6
WeekdayOf(d) == (ToOrdinal(d) + 6) % 7

NextDay(d) ==
    IF d[3] < DaysInMonth(d[1], d[2]) THEN <<d[1], d[2], d[3] + 1>>
    ELSE IF d[2] < 12 THEN <<d[1], d[2] + 1, 1>>
    ELSE <<d[1] + 1, 1, 1>>

PrevDay(d) ==
    IF d[3] > 1 THEN <<d[1], d[2], d[3] - 1>>
    ELSE IF d[2] > 1 THEN <<d[1], d[2] - 1, DaysInMonth(d[1], d[2] - 1)>>
    ELSE <<d[1] - 1, 12, 31>>

\* d + datetime.timedelta(days=n)
RECURSIVE AddDays(_, _)
AddDays(d, n) ==
    IF n = 0 THEN d
    ELSE IF n > 0 THEN AddDays(NextDay(d), n - 1)
    ELSE AddDays(PrevDay(d), n + 1)

\* d1 < d2 and d1 <= d2 on dates
DateLT(a, b) ==
    \/ a[1] < b[1]
    \/ a[1] = b[1] /\ a[2] < b[2]
    \/ a[1] = b[1] /\ a[2] = b[2] /\ a[3] < b[3]

DateLE(a, b) == a = b \/ DateLT(a, b)

\* ------------------------------------------------- dateutil.relativedelta
\* weekday constants of dateutil.relativedelta (MO is 0); X(n) keeps n
TH(n) == [weekday |-> 3, n |-> n]
FR(n) == [weekday |-> 4, n |-> n]

Abs(n) == IF n < 0 THEN -n ELSE n

\* d + relativedelta(months=k): the month moves, the day is clamped
AddMonths(d, k) ==
    LET m0 == (d[2] - 1) + k
        y  == d[1] + (m0 \div 12)
        m  == (m0 % 12) + 1
    IN  <<y, m, Min2(d[3], DaysInMonth(y, m))>>

\* d + relativedelta(day=base_day, weekday=rule): the day is replaced (and
\* clamped to the month), then the date moves to the nth given weekday,
\* counting the date itself; nth is "n or 1", so n = 0 counts as +1
RelativeDayWeekday(d, base_day, rule) ==
    LET ret  == <<d[1], d[2], Min2(DaysInMonth(d[1], d[2]), base_day)>>
        nth  == IF rule.n = 0 THEN 1 ELSE rule.n
        base == (Abs(nth) - 1) * 7
        jump == IF nth > 0
                THEN base + ((7 - WeekdayOf(ret) + rule.weekday) % 7)
                ELSE -(base + ((WeekdayOf(ret) - rule.weekday) % 7))
    IN  AddDays(ret, jump)

\* monthly_on(weekday_rule, base_day)(d)
monthly_on(weekday_rule, base_day, d) ==
    RelativeDayWeekday(d, base_day, weekday_rule)

\* ------------------------------------------------------------ DataFrame
\* a missing value (float NaN) and an empty worksheet cell
NaN == "NaN"
Blank == ""

\* pd.DataFrame() : no columns, no rows
EmptyFrame == [state |-> "ok", cols |-> <<>>, rows |-> <<>>]

\* a sheet that is not in the workbook, and one whose read raises
AbsentSheet == [state |-> "absent", cols |-> <<>>, rows |-> <<>>]
CorruptSheet == [state |-> "corrupt", cols |-> <<>>, rows |-> <<>>]

Frame(cols, rows) == [state |-> "ok", cols |-> cols, rows |-> rows]

\* df.empty
IsEmpty(df) == Len(df.rows) = 0 \/ Len(df.cols) = 0

HasDuplicateCols(df) == \E i, j \in 1..Len(df.cols) : i < j /\ df.cols[i] = df.cols[j]

\* the cell of row r under column c (the first column of that name)
Cell(df, r, c) == r[IndexOf(df.cols, c)]

\* df[[c1, c2, ...]]
SelectCols(df, cs) ==
    Frame(cs, Tup([i \in 1..Len(df.rows) |->
                      Tup([j \in 1..Len(cs) |-> df.rows[i][IndexOf(df.cols, cs[j])]])]))

\* df[c] = v for a new column c
AddCol(df, c, v) ==
    Frame(Append(df.cols, c), Tup([i \in 1..Len(df.rows) |-> Append(df.rows[i], v)]))

\* the columns of b that a does not have, in b's order
RECURSIVE NewCols(_, _, _)
NewCols(acols, bcols, i) ==
    IF i > Len(bcols) THEN <<>>
    ELSE IF bcols[i] \in Range(acols) THEN NewCols(acols, bcols, i + 1)
    ELSE <<bcols[i]>> \o NewCols(acols, bcols, i + 1)

\* the rows of df laid out under the columns cs, NaN where df has no such column
Reindex(df, cs) ==
    LET at == Tup([j \in 1..Len(cs) |-> IndexOf(df.cols, cs[j])])
    IN  Tup([i \in 1..Len(df.rows) |->
                Tup([j \in 1..Len(cs) |->
                        IF at[j] = 0 THEN NaN ELSE df.rows[i][at[j]]])])

\* pd.concat([a, b]) raises InvalidIndexError when a frame whose
\* columns have to be realigned carries a duplicate column name
ConcatRaises(a, b) ==
    /\ Len(a.cols) > 0 /\ Len(b.cols) > 0
    /\ a.cols # b.cols
    /\ HasDuplicateCols(a) \/ HasDuplicateCols(b)

\* pd.concat([a, b]) : a frame without columns contributes nothing; otherwise
\* the columns are the union in order of first appearance, a's rows first
Concat(a, b) ==
    IF Len(a.cols) = 0 THEN b
    ELSE IF Len(b.cols) = 0 THEN a
    ELSE LET cs == a.cols \o NewCols(a.cols, b.cols, 1)
         IN  Frame(cs, Reindex(a, cs) \o Reindex(b, cs))

\* the cells of row r at the positions at
KeyAt(r, at) == Tup([k \in 1..Len(at) |-> r[at[k]]])

\* the cells of row r under the columns subset
KeyOf(df, r, subset) ==
    KeyAt(r, Tup([k \in 1..Len(subset) |-> IndexOf(df.cols, subset[k])]))

\* the rows from position i on whose key (the cells at the positions at) no
\* earlier row has
RECURSIVE KeepFirst(_, _, _, _)
KeepFirst(rows, at, i, seen) ==
    IF i > Len(rows) THEN <<>>
    ELSE LET k == KeyAt(rows[i], at)
         IN  IF k \in seen THEN KeepFirst(rows, at, i + 1, seen)
             ELSE <<rows[i]>> \o KeepFirst(rows, at, i + 1, seen \cup {k})

\* the rows up to position i whose key no later row has
RECURSIVE KeepLast(_, _, _, _)
KeepLast(rows, at, i, seen) ==
    IF i < 1 THEN <<>>
    ELSE LET k == KeyAt(rows[i], at)
         IN  IF k \in seen THEN KeepLast(rows, at, i - 1, seen)
             ELSE KeepLast(rows, at, i - 1, seen \cup {k}) \o <<rows[i]>>

\* drop_duplicates with keep="last"
drop_duplicates_keep_last(df, subset) ==
    Frame(df.cols,
          KeepLast(df.rows, Tup([k \in 1..Len(subset) |-> IndexOf(df.cols, subset[k])]),
                   Len(df.rows), {}))

\* df.drop_duplicates(subset=...) : keep="first"
drop_duplicates(df, subset) ==
    Frame(df.cols,
          KeepFirst(df.rows, Tup([k \in 1..Len(subset) |-> IndexOf(df.cols, subset[k])]),
                    1, {}))

\* two runs of rows, each ascending by date, merged; at equal dates the rows
\* of the first run come first
RECURSIVE MergeByDate(_, _, _)
MergeByDate(a, b, di) ==
    IF a = <<>> THEN b
    ELSE IF b = <<>> THEN a
    ELSE IF DateLT(b[1][di], a[1][di])
    THEN <<b[1]>> \o MergeByDate(a, Tail(b), di)
    ELSE <<a[1]>> \o MergeByDate(Tail(a), b, di)

\* the rows in ascending order of their date cell
RECURSIVE SortRows(_, _)
SortRows(rows, di) ==
    IF Len(rows) <= 1 THEN rows
    ELSE LET h == Len(rows) \div 2
         IN  MergeByDate(SortRows(SubSeq(rows, 1, h), di),
                         SortRows(SubSeq(rows, h + 1, Len(rows)), di), di)

\* df.sort_values("Date") : ascending; rows of one date keep their order here
\* (the order among equal dates is not fixed by the sort, and nothing below
\* reads it)
sort_values_Date(df) ==
    Frame(df.cols, SortRows(df.rows, IndexOf(df.cols, "Date")))

\* ------------------------------------------------------------ 1. live data
\* dt.date.today() on the day the program is run, as str(today) prints it
Todays == {"2025-07-28"}

\* the columns of a provider record, and three provider records: two for the
\* same release at different times of day, one for another country
ProviderCols ==
    <<"Date", "Country", "Event", "Actual", "Previous",
      "Forecast", "Consensus", "Importance", "Ticker">>

ProviderEvents ==
    << << <<2025, 8, 1, 12, 30>>, "United States", "Non-Farm Payrolls",
          "73K", "147K", "110K", "105K", 3, "NFP" >>,
       << <<2025, 8, 1, 14, 0>>, "United States", "Non-Farm Payrolls",
          "75K", "147K", "111K", "106K", 3, "NFP" >>,
       << <<2025, 7, 31, 3, 0>>, "Japan", "BoJ Interest Rate Decision",
          "0.5%", "0.5%", "0.5%", "0.4%", 2, "BOJ" >> >>

\* which fields the provider sends: Forecast only, Consensus only, both
ProviderLayouts ==
    { <<"Date", "Country", "Event", "Actual", "Previous", "Forecast",
        "Importance", "Ticker">>,
      <<"Date", "Country", "Event", "Actual", "Previous", "Consensus",
        "Importance", "Ticker">>,
      <<"Date", "Country", "Event", "Actual", "Previous", "Forecast",
        "Consensus", "Importance", "Ticker">> }

\* which records the provider sends, in which order
ProviderSelections == {<<>>, <<3>>, <<1, 2>>, <<3, 2>>}

\* pd.DataFrame(r.json()) for a JSON array of the selected records
PayloadFrame(sel, layout) ==
    IF sel = <<>> THEN EmptyFrame
    ELSE SelectCols(Frame(ProviderCols,
                          Tup([i \in 1..Len(sel) |-> ProviderEvents[sel[i]]])),
                    layout)

Payloads == {PayloadFrame(sel, layout) : sel \in ProviderSelections, layout \in ProviderLayouts}

\* what requests.get meets: a timeout, a transport error, or an HTTP response
Responses ==
    {[kind |-> k, status |-> 0, body |-> EmptyFrame] : k \in {"timeout", "transport"}}
    \cup {[kind |-> "http", status |-> st, body |-> EmptyFrame] : st \in {404, 500}}
    \cup {[kind |-> "http", status |-> 200, body |-> b] : b \in Payloads}

\* requests.get(..., timeout=30) raises on a timeout or a transport error
GetRaises(resp) == resp.kind # "http"

\* the status is not looked at
raise_for_status_skipped(resp) == FALSE

\* r.raise_for_status() raises HTTPError for a 4xx or 5xx status
raise_for_status(resp) == resp.status >= 400 /\ resp.status < 600

\* the keep dict, in its insertion order, and the renaming it gives
keep == <<"Date", "Country", "Event", "Actual", "Previous",
          "Forecast", "Consensus", "Importance">>

KeepName(c) ==
    IF c = "Consensus" THEN "Forecast"
    ELSE IF c = "Importance" THEN "Impact"
    ELSE c

\* [c for c in keep if c in live.columns]
RECURSIVE KeptCols(_, _)
KeptCols(cols, i) ==
    IF i > Len(keep) THEN <<>>
    ELSE IF keep[i] \in Range(cols) THEN <<keep[i]>> \o KeptCols(cols, i + 1)
    ELSE KeptCols(cols, i + 1)

\* df.rename(columns=keep)
Rename(df) == Frame(Tup([j \in 1..Len(df.cols) |-> KeepName(df.cols[j])]), df.rows)

\* pd.to_datetime(x).dt.date : the time of day is dropped
ToDate(ts) == <<ts[1], ts[2], ts[3]>>

\* live["Date"] = pd.to_datetime(live["Date"]).dt.date
ConvertDates(df) ==
    Frame(df.cols, Tup([i \in 1..Len(df.rows) |->
                           Tup([j \in 1..Len(df.cols) |->
                                   IF df.cols[j] = "Date" THEN ToDate(df.rows[i][j])
                                   ELSE df.rows[i][j]])]))

\* f"TE_live_{today}"
SourceTag(t) == "TE_live_" \o t

\* the normalisation of a non-empty payload (lines 51-59)
Normalize(df, t) ==
    AddCol(ConvertDates(Rename(SelectCols(df, KeptCols(df.cols, 1)))),
           "Source", SourceTag(t))

\* fetch_live_te() : raised, or the frame returned
fetch_live_te(resp, t) ==
    IF GetRaises(resp) \/ raise_for_status(resp)
    THEN [raised |-> TRUE, df |-> EmptyFrame]
    ELSE IF IsEmpty(resp.body)
    THEN [raised |-> FALSE, df |-> EmptyFrame]
    ELSE [raised |-> FALSE, df |-> Normalize(resp.body, t)]

\* ------------------------------------------------------------ 2. static events
START_STATIC == <<2025, 7, 1>>
END_STATIC == <<2026, 1, 31>>

nfp_rule(d) == monthly_on(FR(1), 1, d)
cpi_rule(d) == monthly_on(TH(0), 10, d)
ppi_rule(d) == monthly_on(TH(0), 12, d)
retail_rule(d) == monthly_on(TH(0), 14, d)
gdp_rule(d) == monthly_on(TH(0), 28, d)

\* the five United States rows of one iteration
MonthRows(cur) ==
    << <<nfp_rule(cur), "United States", "Non-Farm Payrolls", 3>>,
       <<cpi_rule(cur), "United States", "Consumer Price Index YoY", 2>>,
       <<ppi_rule(cur), "United States", "Producer Price Index YoY", 2>>,
       <<retail_rule(cur), "United States", "Retail Sales MoM", 2>>,
       <<gdp_rule(cur), "United States", "GDP Advance Estimate QoQ", 3>> >>

\* the loop stops one month early
LoopStopsEarly(cur) == DateLT(AddMonths(cur, 1), END_STATIC)

\* while cur <= END_STATIC
LoopContinues(cur) == DateLE(cur, END_STATIC)

\* the while loop: the rows collected and the anchors it went through
RECURSIVE StaticLoop(_, _, _)
StaticLoop(cur, rows, anchors) ==
    IF LoopContinues(cur)
    THEN StaticLoop(AddMonths(cur, 1), rows \o MonthRows(cur), Append(anchors, cur))
    ELSE [rows |-> rows, anchors |-> anchors]

\* the literal date lists, as date.fromisoformat reads them
fomc == << <<2025, 7, 30>>, <<2025, 9, 17>>, <<2025, 11, 5>>,
           <<2025, 12, 17>>, <<2026, 1, 28>> >>
ecb == << <<2025, 7, 17>>, <<2025, 9, 11>>, <<2025, 10, 23>>,
          <<2025, 12, 4>>, <<2026, 1, 22>> >>
sg_gdp == << <<2025, 7, 12>>, <<2025, 10, 11>>, <<2026, 1, 10>> >>

OneOffRows ==
    [i \in 1..Len(fomc) |->
        <<fomc[i], "United States", "FOMC Meeting & Rate Decision", 3>>]
    \o [i \in 1..Len(ecb) |->
        <<ecb[i], "Euro Area", "ECB Interest Rate Decision", 3>>]
    \o [i \in 1..Len(sg_gdp) |->
        <<sg_gdp[i], "Singapore", "GDP Advance Estimate QoQ", 2>>]

\* generate_static() : the frame returned, and the anchors of the loop
generate_static ==
    LET loop == StaticLoop(START_STATIC, <<>>, <<>>)
        df0  == Frame(<<"Date", "Country", "Event", "Impact">>, loop.rows \o OneOffRows)
        df1  == AddCol(AddCol(AddCol(df0, "Forecast", ""), "Previous", ""), "Actual", "")
    IN  [df |-> AddCol(df1, "Source", "Static_Schedule"), anchors |-> loop.anchors]

\* ------------------------------------------------------------ the workbook
SheetNames == {"Calendar", "Glossary", "Notes"}

\* EXCEL_FILE does not exist
NoFile == [exists |-> FALSE, sheets |-> [n \in SheetNames |-> AbsentSheet]]

\* the columns whose cells hold text (the others hold dates and numbers)
TextCols == {"Country", "Event", "Actual", "Previous", "Forecast", "Source",
             "Purpose", "Frequency", "Note"}

\* the cell texts pd.read_excel reads as missing (keep_default_na=True)
NAStrings == {"", "#N/A", "#N/A N/A", "#NA", "-1.#IND", "-1.#QNAN", "-NaN", "-nan",
              "1.#IND", "1.#QNAN", "<NA>", "N/A", "NA", "NULL", "NaN", "None",
              "n/a", "nan", "null"}

\* a cell as to_excel writes it: a missing value and an empty text leave
\* the cell empty
WriteCell(v) == IF v = NaN \/ v = "" THEN Blank ELSE v

\* a cell as pd.read_excel returns it
ReadCell(c) == IF c \in NAStrings THEN NaN ELSE c

\* df.to_excel(xls, sheet_name=..., index=False) : the sheet written
to_excel(df) ==
    LET text == Tup([j \in 1..Len(df.cols) |-> df.cols[j] \in TextCols])
    IN  Frame(df.cols, Tup([i \in 1..Len(df.rows) |->
                               Tup([j \in 1..Len(df.cols) |->
                                       IF text[j] THEN WriteCell(df.rows[i][j])
                                       ELSE df.rows[i][j]])]))

\* pd.read_excel(EXCEL_FILE, sheet_name=...) of a readable sheet
read_excel(sheet) ==
    LET text == Tup([j \in 1..Len(sheet.cols) |-> sheet.cols[j] \in TextCols])
    IN  Frame(sheet.cols, Tup([i \in 1..Len(sheet.rows) |->
                                  Tup([j \in 1..Len(sheet.cols) |->
                                          IF text[j] THEN ReadCell(sheet.rows[i][j])
                                          ELSE sheet.rows[i][j]])]))

\* the writer always starts a new workbook
WriterModeW(mode) == "w"

\* the mode handed to pd.ExcelWriter (line 114), whatever mode line 112 chose
WriterMode(mode) == "a"

\* pd.ExcelWriter(EXCEL_FILE, engine="openpyxl", mode=...) raises when it
\* appends to a file that does not exist, or to one it cannot load
WriterRaises(st, wmode, failAt) ==
    wmode = "a" /\ (~st.exists \/ (failAt = "open" /\ st.sheets["Glossary"].state = "corrupt"))

\* the workbook the writer starts from: the file's sheets when appending,
\* a new workbook otherwise
WriterBook(st, wmode) ==
    IF wmode = "a" THEN st.sheets ELSE [n \in SheetNames |-> AbsentSheet]

\* if_sheet_exists="replace" : the named sheet is replaced, or added
PutSheet(book, name, sheet) == [book EXCEPT ![name] = sheet]

\* ------------------------------------------------------------ 3. merge & write
CalendarKey == <<"Date", "Country", "Event">>

\* lines 108-110
Combine(live_df, static_df) ==
    sort_values_Date(drop_duplicates(Concat(live_df, static_df), CalendarKey))

\* combined[["Event"]].drop_duplicates().assign(Purpose="", Frequency="")
NewGloss(combined) ==
    AddCol(AddCol(drop_duplicates(SelectCols(combined, <<"Event">>), <<"Event">>),
                  "Purpose", ""), "Frequency", "")

\* the glossary concatenated without the deduplication
MergeGlossNoDedup(old, new_gloss) == Concat(old, new_gloss)

\* lines 127-129
MergeGloss(old, new_gloss) == drop_duplicates(Concat(old, new_gloss), <<"Event">>)

\* a damaged sheet read as if it were not there
ReadRaisesNever(sheet) == FALSE

\* pd.read_excel(EXCEL_FILE, sheet_name="Glossary") raises on a sheet it
\* cannot parse; nothing around it catches the exception
ReadRaises(sheet) == sheet.state = "corrupt"

\* write_excel(live_df, static_df) on the file st.  failAt says where a
\* corrupt Glossary sheet makes the run raise: when the writer loads the
\* file ("open") or when pd.read_excel parses the sheet ("read").  An
\* exception inside the with block still closes the writer, which saves the
\* workbook as it then is.
write_excel(live_df, static_df, st, failAt) ==
    IF ConcatRaises(live_df, static_df) THEN [raised |-> TRUE, store |-> st]
    ELSE
    LET combined == Combine(live_df, static_df)
        mode     == IF st.exists THEN "a" ELSE "w"
        wmode    == WriterMode(mode)
    IN  IF WriterRaises(st, wmode, failAt) THEN [raised |-> TRUE, store |-> st]
        ELSE
        LET book1 == PutSheet(WriterBook(st, wmode), "Calendar", to_excel(combined))
            gsh   == st.sheets["Glossary"]
        IN  IF mode = "a" /\ ReadRaises(gsh)
            THEN [raised |-> TRUE, store |-> [exists |-> TRUE, sheets |-> book1]]
            ELSE
            LET old   == IF mode = "a" /\ gsh.state = "ok" THEN read_excel(gsh)
                         ELSE EmptyFrame
                gloss == MergeGloss(old, NewGloss(combined))
            IN  [raised |-> FALSE,
                 store  |-> [exists |-> TRUE,
                             sheets |-> PutSheet(book1, "Glossary", to_excel(gloss))]]

\* ------------------------------------------------------------ the user
MaxEdits == 1

\* what a user types into a Purpose or Frequency cell, and for which events
UserTexts == {"Employment change", "N/A"}
EditableEvents == {"Non-Farm Payrolls"}

NotesSheet(text) == Frame(<<"Note">>, << <<text>> >>)

SetCell(sheet, i, c, v) ==
    Frame(sheet.cols, [sheet.rows EXCEPT ![i][IndexOf(sheet.cols, c)] = v])

\* ------------------------------------------------------------ state machine
NoResponse == [kind |-> "none", status |-> 0, body |-> EmptyFrame]
NoInputs == [set |-> FALSE, live |-> EmptyFrame, static |-> EmptyFrame]

BetweenRuns == pc \in {"idle", "done", "aborted"}

\* the user acts between two runs of the program
UserTurn == BetweenRuns /\ runs < MaxRuns

Init ==
    /\ pc = "idle"
    /\ store = NoFile
    /\ today = "none"
    /\ payload = EmptyFrame
    /\ live = EmptyFrame
    /\ static = EmptyFrame
    /\ iters = <<>>
    /\ outcome = "none"
    /\ runs = 0
    /\ hist = [store0 |-> NoFile, resp |-> NoResponse, invoked |-> FALSE,
               prevIn |-> NoInputs, glossBefore |-> AbsentSheet,
               repeated |-> FALSE, edits |-> 0]

\* the user's actions forget the inputs of the run before them
Touched == [hist EXCEPT !.prevIn = NoInputs, !.repeated = FALSE]

\* the user creates the workbook by hand, with a sheet of their own
UserCreateWorkbook ==
    /\ UserTurn
    /\ ~store.exists
    /\ store' = [exists |-> TRUE,
                 sheets |-> [NoFile.sheets EXCEPT !["Notes"] = NotesSheet("to do: annotate the glossary")]]
    /\ pc' = "idle"
    /\ hist' = Touched
    /\ UNCHANGED <<today, payload, live, static, iters, outcome, runs>>

\* the user annotates a Glossary row
UserEditGlossary ==
    /\ UserTurn
    /\ store.exists
    /\ store.sheets["Glossary"].state = "ok"
    /\ hist.edits < MaxEdits
    /\ LET g == store.sheets["Glossary"]
       IN  \E i \in 1..Len(g.rows), c \in {"Purpose", "Frequency"}, t \in UserTexts :
            /\ Cell(g, g.rows[i], "Event") \in EditableEvents
            /\ Cell(g, g.rows[i], c) # t
            /\ store' = [store EXCEPT !.sheets["Glossary"] = SetCell(g, i, c, t)]
    /\ pc' = "idle"
    /\ hist' = [Touched EXCEPT !.edits = hist.edits + 1]
    /\ UNCHANGED <<today, payload, live, static, iters, outcome, runs>>

\* the Glossary sheet gets damaged: reading it raises from now on
DamageGlossary ==
    /\ UserTurn
    /\ store.exists
    /\ hist.edits < MaxEdits
    /\ store.sheets["Glossary"].state # "corrupt"
    /\ store' = [store EXCEPT !.sheets["Glossary"] = CorruptSheet]
    /\ pc' = "idle"
    /\ hist' = [Touched EXCEPT !.edits = hist.edits + 1]
    /\ UNCHANGED <<today, payload, live, static, iters, outcome, runs>>

\* __main__, line 135: live = fetch_live_te(); an exception ends the process
Fetch ==
    /\ BetweenRuns
    /\ runs < MaxRuns
    /\ \E t \in Todays, resp \in Responses :
        LET r == fetch_live_te(resp, t)
        IN  /\ today' = t
            /\ payload' = resp.body
            /\ live' = r.df
            /\ pc' = IF r.raised THEN "aborted" ELSE "fetched"
            /\ outcome' = IF r.raised THEN "FetchError" ELSE "running"
            /\ hist' = [hist EXCEPT !.store0 = store, !.resp = resp,
                                    !.invoked = FALSE, !.repeated = FALSE]
    /\ static' = EmptyFrame
    /\ iters' = <<>>
    /\ runs' = runs + 1
    /\ UNCHANGED store

\* __main__, line 136: static = generate_static()
GenerateStatic ==
    /\ pc = "fetched"
    /\ static' = generate_static.df
    /\ iters' = generate_static.anchors
    /\ pc' = "generated"
    /\ UNCHANGED <<store, today, payload, live, outcome, runs, hist>>

\* where a run on the file st can meet a damaged Glossary sheet
FailPoints(st) ==
    IF st.sheets["Glossary"].state = "corrupt" THEN {"open", "read"} ELSE {"read"}

\* __main__, line 137: write_excel(live, static)
WriteExcel ==
    /\ pc = "generated"
    /\ \E failAt \in FailPoints(store) :
        LET w == write_excel(live, static, store, failAt)
        IN  /\ store' = w.store
            /\ pc' = IF w.raised THEN "aborted" ELSE "done"
            /\ outcome' = IF w.raised THEN "WriteError" ELSE "ok"
    /\ hist' = [hist EXCEPT
                  !.invoked = TRUE,
                  !.prevIn = [set |-> TRUE, live |-> live, static |-> static],
                  !.glossBefore = store.sheets["Glossary"],
                  !.repeated = (hist.prevIn = [set |-> TRUE, live |-> live,
                                               static |-> static])]
    /\ UNCHANGED <<today, payload, live, static, iters, runs>>

Next ==
    \/ UserCreateWorkbook
    \/ UserEditGlossary
    \/ DamageGlossary
    \/ Fetch
    \/ GenerateStatic
    \/ WriteExcel

Spec == Init /\ [][Next]_vars

\* ------------------------------------------------------------ properties
Cal == store.sheets["Calendar"]
Gloss == store.sheets["Glossary"]
Gloss0 == hist.store0.sheets["Glossary"]

RunEnded == pc \in {"done", "aborted"}

\* the key (Date, Country, Event) of each row of a frame, row by row
RowKeys(df) == Tup([i \in 1..Len(df.rows) |-> KeyOf(df, df.rows[i], CalendarKey)])

\* the keys of the rows of a frame
KeysOf(df) == Range(RowKeys(df))

\* the positions at which the key k stands in the row keys ks
RowsWithKey(ks, k) == {i \in 1..Len(ks) : ks[i] = k}

ValueCols == <<"Actual", "Previous", "Forecast", "Impact", "Source">>

SameValues(df1, r1, df2, r2) ==
    \A n \in 1..Len(ValueCols) : Cell(df1, r1, ValueCols[n]) = Cell(df2, r2, ValueCols[n])

EventsOf(df) == {Cell(df, df.rows[i], "Event") : i \in 1..Len(df.rows)}

UniqueEvents(df) ==
    \A i, j \in 1..Len(df.rows) :
        i < j => Cell(df, df.rows[i], "Event") # Cell(df, df.rows[j], "Event")

\* C1: when write_excel has written the Calendar table, every key (Date,
\* Country, Event) of a live or static row it was given is the key of
\* exactly one Calendar row, and for a key that a live row has, that row
\* carries the field values (Actual, Previous, Forecast, Impact, Source) of a
\* live row with the key, not those of the static row.
C1_MergeDedup ==
    pc = "done" =>
        LET calKeys  == RowKeys(Cal)
            liveKeys == RowKeys(live)
        IN  \A k \in Range(liveKeys) \cup KeysOf(static) :
                /\ Cardinality(RowsWithKey(calKeys, k)) = 1
                /\ k \in Range(liveKeys) =>
                    \E i \in RowsWithKey(liveKeys, k) :
                        \A c \in RowsWithKey(calKeys, k) :
                            SameValues(Cal, Cal.rows[c], live, live.rows[i])

NfpKey == << <<2025, 8, 1>>, "United States", "Non-Farm Payrolls" >>

\* a completed run whose live and static rows share the Non-Farm Payrolls key
C1_Witness ==
    /\ pc = "done"
    /\ NfpKey \in KeysOf(live) \cap KeysOf(static)
    /\ \E c \in RowsWithKey(RowKeys(Cal), NfpKey) :
        Cell(Cal, Cal.rows[c], "Source") = SourceTag(today)

\* C2: after a run, every Glossary row the store held before the run is
\* still in the Glossary with the same Purpose and Frequency (values the
\* user typed included), and the rows the run added have blank Purpose and
\* Frequency and event names the Glossary did not have.
C2_GlossaryPreserved ==
    (RunEnded /\ Gloss0.state = "ok") =>
        /\ Gloss.state = "ok"
        /\ \A i \in 1..Len(Gloss0.rows) : Gloss0.rows[i] \in Range(Gloss.rows)
        /\ \A j \in 1..Len(Gloss.rows) :
            \/ Gloss.rows[j] \in Range(Gloss0.rows)
            \/ /\ Cell(Gloss, Gloss.rows[j], "Event") \notin EventsOf(Gloss0)
               /\ Cell(Gloss, Gloss.rows[j], "Purpose") = Blank
               /\ Cell(Gloss, Gloss.rows[j], "Frequency") = Blank

\* C2, the part that holds: a Glossary row whose Purpose and Frequency are
\* not texts that pd.read_excel reads as missing is kept as it is by a run.
C2_OtherTextPreserved ==
    (RunEnded /\ Gloss0.state = "ok") =>
        \A i \in 1..Len(Gloss0.rows) :
            (/\ Cell(Gloss0, Gloss0.rows[i], "Purpose") \notin NAStrings \ {Blank}
             /\ Cell(Gloss0, Gloss0.rows[i], "Frequency") \notin NAStrings \ {Blank})
            => Gloss0.rows[i] \in Range(Gloss.rows)

\* C3: when write_excel runs twice in succession on the same live and
\* static frames, the Glossary table after the second run equals the one
\* after the first run, and no event name is in it twice.
C3_GlossaryIdempotent ==
    hist.repeated =>
        /\ Gloss = hist.glossBefore
        /\ Gloss.state = "ok" => UniqueEvents(Gloss)

\* the second of two successive runs on the same non-empty live feed
C3_Witness ==
    /\ hist.repeated
    /\ pc = "done"
    /\ Len(live.rows) > 0
    /\ Len(Gloss.rows) > 0

\* the fetch did not succeed: a timeout, a transport error, or an HTTP
\* status outside 2xx
FetchFailed(resp) ==
    \/ resp.kind \in {"timeout", "transport"}
    \/ resp.kind = "http" /\ ~(resp.status >= 200 /\ resp.status < 300)

\* C4: a run that starts without the workbook file and whose fetch succeeds
\* ends without an error, with the file created and holding the Calendar and
\* the Glossary table.
C4_FirstRunCreates ==
    (RunEnded /\ ~hist.store0.exists /\ ~FetchFailed(hist.resp)) =>
        /\ pc = "done"
        /\ store.exists
        /\ Cal.state = "ok"
        /\ Gloss.state = "ok"

\* C5: a run whose fetch fails ends with the error, without write_excel
\* being called, and leaves the store as it was (no file is created when
\* there was none).
C5_FetchFailureAborts ==
    (pc # "idle" /\ FetchFailed(hist.resp)) =>
        /\ pc = "aborted"
        /\ outcome = "FetchError"
        /\ ~hist.invoked
        /\ store = hist.store0

\* a failed fetch on a workbook that an earlier run has written
C5_Witness ==
    /\ pc = "aborted"
    /\ FetchFailed(hist.resp)
    /\ store.exists
    /\ Cal.state = "ok"
    /\ Gloss.state = "ok"

\* one row (event, blank, blank) for each distinct event name of the
\* Calendar, and nothing else
BlankGlossaryOf(cal, g) ==
    /\ g.state = "ok"
    /\ EventsOf(g) = EventsOf(cal)
    /\ UniqueEvents(g)
    /\ \A j \in 1..Len(g.rows) :
        /\ Cell(g, g.rows[j], "Purpose") = Blank
        /\ Cell(g, g.rows[j], "Frequency") = Blank

\* C6 as stated: on a workbook whose Glossary table cannot be read, the run
\* does not abort; it writes the Calendar and a Glossary of one blank row
\* for each distinct event name.
C6_CorruptTreatedAsEmpty ==
    (RunEnded /\ hist.invoked /\ Gloss0.state = "corrupt") =>
        /\ pc = "done"
        /\ Cal.state = "ok"
        /\ BlankGlossaryOf(Cal, Gloss)

\* C6 as amended: on a workbook whose Glossary table cannot be read, the
\* call of write_excel ends with the error and the Glossary table is left as
\* it was; only a workbook without a Glossary table counts as an empty prior
\* glossary, and a run that completes on it writes the Calendar and a
\* Glossary of one blank row for each distinct event name.
C6_CorruptAborts ==
    /\ (RunEnded /\ hist.invoked /\ Gloss0.state = "corrupt") =>
        /\ pc = "aborted"
        /\ outcome = "WriteError"
        /\ Gloss = Gloss0
    /\ (pc = "done" /\ Gloss0.state = "absent") =>
        /\ Cal.state = "ok"
        /\ BlankGlossaryOf(Cal, Gloss)

\* write_excel has met a damaged Glossary sheet while parsing it
C6_Witness ==
    /\ pc = "aborted"
    /\ hist.invoked
    /\ Gloss0.state = "corrupt"
    /\ Cal # hist.store0.sheets["Calendar"]

\* C7: during and after a run on an existing workbook, every sheet other
\* than Calendar and Glossary is in the workbook with the content it had
\* when the run began.
C7_OtherSheetsKept ==
    (pc # "idle" /\ hist.store0.exists) =>
        /\ store.exists
        /\ \A n \in SheetNames \ {"Calendar", "Glossary"} :
            store.sheets[n] = hist.store0.sheets[n]

\* a completed run that replaced the Calendar beside the user's sheet
C7_Witness ==
    /\ pc = "done"
    /\ hist.store0.exists
    /\ hist.store0.sheets["Calendar"].state = "ok"
    /\ Cal # hist.store0.sheets["Calendar"]
    /\ store.sheets["Notes"].state = "ok"

RecurringEvents ==
    <<"Non-Farm Payrolls", "Consumer Price Index YoY", "Producer Price Index YoY",
      "Retail Sales MoM", "GDP Advance Estimate QoQ">>

RowsOf(df, country, event) ==
    {i \in 1..Len(df.rows) :
        /\ Cell(df, df.rows[i], "Country") = country
        /\ Cell(df, df.rows[i], "Event") = event}

\* C8: generate_static goes through exactly 7 anchors, 2025-07-01 and then
\* one calendar month further each time, the last being the last that is
\* <= 2026-01-31; it returns 48 rows: the 5 recurring United States rows of
\* each of the 7 months, 5 FOMC rows, 5 ECB rows and 3 Singapore rows, each
\* with empty Actual, Previous and Forecast and the source Static_Schedule.
C8_StaticRows ==
    pc \in {"generated", "done"} =>
        /\ Len(iters) = 7
        /\ iters[1] = START_STATIC
        /\ \A k \in 1..(Len(iters) - 1) : iters[k + 1] = AddMonths(iters[k], 1)
        /\ DateLE(iters[Len(iters)], END_STATIC)
        /\ ~DateLE(AddMonths(iters[Len(iters)], 1), END_STATIC)
        /\ Len(static.rows) = 48
        /\ \A k \in 1..7, e \in 1..5 :
            LET r == static.rows[5 * (k - 1) + e]
            IN  /\ Cell(static, r, "Country") = "United States"
                /\ Cell(static, r, "Event") = RecurringEvents[e]
        /\ Cardinality(RowsOf(static, "United States", "FOMC Meeting & Rate Decision")) = 5
        /\ Cardinality(RowsOf(static, "Euro Area", "ECB Interest Rate Decision")) = 5
        /\ Cardinality(RowsOf(static, "Singapore", "GDP Advance Estimate QoQ")) = 3
        /\ \A i \in 1..Len(static.rows) :
            /\ Cell(static, static.rows[i], "Actual") = ""
            /\ Cell(static, static.rows[i], "Previous") = ""
            /\ Cell(static, static.rows[i], "Forecast") = ""
            /\ Cell(static, static.rows[i], "Source") = "Static_Schedule"

\* the static frame has been generated
C8_Witness == pc = "generated" /\ Len(static.rows) > 0 /\ Len(iters) > 0

\* the Thursday of the Monday-to-Sunday week that holds the date d
ThursdayOfWeek(d) == AddDays(d, 3 - WeekdayOf(d))

ThursdayDays == <<10, 12, 14, 28>>

\* C9: for every month of the static window and every anchor day D of 10, 12,
\* 14, 28, the date of the row that the rule monthly_on(TH(0), D) produced is
\* the Thursday of the Monday-to-Sunday week that holds day D of that month.
C9_SameWeekThursday ==
    pc \in {"generated", "done"} =>
        \A k \in 1..Len(iters), e \in 1..Len(ThursdayDays) :
            Cell(static, static.rows[5 * (k - 1) + 1 + e], "Date")
                = ThursdayOfWeek(<<iters[k][1], iters[k][2], ThursdayDays[e]>>)

CanonicalCols ==
    {"Date", "Country", "Event", "Actual", "Previous", "Forecast", "Impact", "Source"}

\* C10: the frame fetch_live_te returns for a non-empty payload has exactly
\* one Forecast column, holding the provider's Forecast when the payload has
\* that field and the provider's Consensus otherwise, and no column outside
\* the canonical ones.
C10_SingleForecast ==
    (pc \in {"fetched", "generated", "done"} /\ ~IsEmpty(payload)) =>
        /\ Count(live.cols, "Forecast") = 1
        /\ Range(live.cols) \subseteq CanonicalCols
        /\ \A i \in 1..Len(live.rows) :
            Cell(live, live.rows[i], "Forecast")
                = IF "Forecast" \in Range(payload.cols)
                  THEN Cell(payload, payload.rows[i], "Forecast")
                  ELSE Cell(payload, payload.rows[i], "Consensus")

====
